---- MODULE Spec2Model ----
(***************************************************************************)
(* Model of starlette_responses_kit/file.py: the streaming response        *)
(* protocol BaseFileResponse.__call__, the header builders, and the four   *)
(* content sources FileResponse, BytesFileResponse, TextFileResponse and   *)
(* JsonFileResponse.                                                       *)
(*                                                                         *)
(* Bytes and characters are code points (integers); header names and       *)
(* header values are strings.  One response object is constructed (Init)   *)
(* and invoked once; every await of __call__ is one step of the machine.   *)
(***************************************************************************)
EXTENDS Integers, Sequences, FiniteSets, TLC

\* Optional[T]: None is the empty tuple, a present value x is <<x>>
None == <<>>
Some(x) == <<x>>
Val(o) == o[1]

Min(a, b) == IF a < b THEN a ELSE b

(***************************************************************************)
(* Bounds of the model.                                                    *)
(***************************************************************************)
MaxLen == 3        \* longest bytes content / file content
MaxChunk == 2      \* largest chunk threshold tried
MaxTextLen == 2    \* longest text content, in characters
MaxItems == 1      \* longest JSON list
BgSteps == 2       \* suspensions inside the cleanup task

(***************************************************************************)
(* Text primitives of the Python runtime used by the code.                 *)
(***************************************************************************)
AsciiLow ==
   <<
      " ", "!", "\"", "#", "$", "%", "&", "'", "(", ")", "*", "+",
      ",", "-", ".", "/", "0", "1", "2", "3", "4", "5", "6", "7",
      "8", "9", ":", ";", "<", "=", ">", "?", "@", "A", "B", "C",
      "D", "E", "F", "G", "H", "I", "J", "K", "L", "M", "N", "O",
      "P", "Q", "R", "S", "T", "U", "V", "W", "X", "Y", "Z", "[",
      "\\", "]", "^", "_"
   >>

AsciiHigh ==
   <<
      "a", "b", "c", "d", "e", "f", "g", "h", "i", "j", "k", "l",
      "m", "n", "o", "p", "q", "r", "s", "t", "u", "v", "w", "x",
      "y", "z", "{", "|", "}", "~"
   >>

\* chr() on the printable ASCII range (the grave accent, 96, is never drawn)
Chr(cp) == IF cp < 96 THEN AsciiLow[cp - 31] ELSE AsciiHigh[cp - 96]

RECURSIVE Join(_)
\* ''.join(chr(c) for c in cps), for printable ASCII code points
Join(cps) == IF cps = <<>> THEN "" ELSE Chr(Head(cps)) \o Join(Tail(cps))

Digit(d) == Chr(48 + d)

RECURSIVE Str(_)
\* str(int) for a non-negative int
Str(n) == IF n < 10 THEN Digit(n) ELSE Str(n \div 10) \o Digit(n % 10)

\* str(float) for a non-negative integer-valued float: "5.0"
StrFloat(m) == Str(m) \o ".0"

\* one character of str.encode('utf-8')
Utf8(cp) ==
   IF cp < 128 THEN <<cp>>
   ELSE IF cp < 2048 THEN <<192 + (cp \div 64), 128 + (cp % 64)>>
   ELSE <<224 + (cp \div 4096), 128 + ((cp \div 64) % 64), 128 + (cp % 64)>>

RECURSIVE Encode(_)
\* str.encode('utf-8')
Encode(text) == IF text = <<>> THEN <<>> ELSE Utf8(Head(text)) \o Encode(Tail(text))

\* code point of a lower-case / upper-case hexadecimal digit
HexLower(d) == IF d < 10 THEN 48 + d ELSE 87 + d
HexUpper(d) == IF d < 10 THEN 48 + d ELSE 55 + d

\* json.dumps of one character of a string (ensure_ascii=True)
JsonChar(cp) ==
   IF cp = 34 THEN <<92, 34>>
   ELSE IF cp = 92 THEN <<92, 92>>
   ELSE IF cp >= 32 /\ cp < 127 THEN <<cp>>
   ELSE <<92, 117, HexLower(cp \div 4096), HexLower((cp \div 256) % 16),
          HexLower((cp \div 16) % 16), HexLower(cp % 16)>>

RECURSIVE JsonChars(_)
JsonChars(s) == IF s = <<>> THEN <<>> ELSE JsonChar(Head(s)) \o JsonChars(Tail(s))

\* json.dumps of a string
JsonString(s) == <<34>> \o JsonChars(s) \o <<34>>

RECURSIVE JsonItems(_)
JsonItems(items) ==
   IF items = <<>> THEN <<>>
   ELSE IF Len(items) = 1 THEN JsonString(Head(items))
   ELSE JsonString(Head(items)) \o <<44, 32>> \o JsonItems(Tail(items))

\* json.dumps of a list of strings: the text of the document
JsonDumps(items) == <<91>> \o JsonItems(items) \o <<93>>

\* str.upper() on the request methods the model draws
Upper(m) ==
   CASE m = "head" -> "HEAD"
     [] m = "Head" -> "HEAD"
     [] m = "get" -> "GET"
     [] OTHER -> m

\* str.lower() on the header names the model draws
Lower(k) ==
   CASE k = "Content-Length" -> "content-length"
     [] k = "ETag" -> "etag"
     [] k = "Last-Modified" -> "last-modified"
     [] k = "Content-Disposition" -> "content-disposition"
     [] OTHER -> k

(***************************************************************************)
(* External helpers of the header builders.                                *)
(***************************************************************************)
\* characters urllib.parse.quote leaves alone: letters, digits, "_.-~", "/"
IsSafe(cp) ==
   \/ cp \in 48..57
   \/ cp \in 65..90
   \/ cp \in 97..122
   \/ cp \in {95, 46, 45, 126, 47}

RECURSIVE QuoteBytes(_)
QuoteBytes(bs) ==
   IF bs = <<>> THEN <<>>
   ELSE <<37, HexUpper(Head(bs) \div 16), HexUpper(Head(bs) % 16)>> \o QuoteBytes(Tail(bs))

RECURSIVE Quote(_)
\* urllib.parse.quote(filename)
Quote(f) ==
   IF f = <<>> THEN <<>>
   ELSE (IF IsSafe(Head(f)) THEN <<Head(f)>> ELSE QuoteBytes(Utf8(Head(f)))) \o Quote(Tail(f))

\* index of the last "." of a name, 0 when there is none
LastDot(f) ==
   IF \E i \in 1..Len(f) : f[i] = 46
   THEN CHOOSE i \in 1..Len(f) : f[i] = 46 /\ \A j \in (i + 1)..Len(f) : f[j] # 46
   ELSE 0

\* mimetypes.guess_type(name)[0] on the extensions the model draws
GuessType(f) ==
   LET d == LastDot(f)
       ext == IF d = 0 THEN <<>> ELSE SubSeq(f, d + 1, Len(f))
   IN  IF d <= 1 THEN None
       ELSE CASE ext = <<112, 110, 103>> -> Some("image/png")
              [] ext = <<116, 120, 116>> -> Some("text/plain")
              [] OTHER -> None

\* two decimal digits
TwoDigits(n) == Digit(n \div 10) \o Digit(n % 10)

\* email.utils.formatdate(mtime, usegmt=True) within the first minute of the epoch
FormatDate(m) == "Thu, 01 Jan 1970 00:00:" \o TwoDigits(m) \o " GMT"

\* md5_hexdigest(text): the digest is kept symbolic
Md5Hexdigest(text) == "md5(" \o text \o ")"

(***************************************************************************)
(* The header container of the response (starlette MutableHeaders over     *)
(* raw_headers): a sequence of <<name, value>> pairs.                      *)
(***************************************************************************)
HasHeader(h, k) == \E i \in 1..Len(h) : h[i][1] = k

GetHeader(h, k) == h[CHOOSE i \in 1..Len(h) : h[i][1] = k /\ \A j \in 1..(i - 1) : h[j][1] # k][2]

CountHeader(h, k) == Cardinality({i \in 1..Len(h) : h[i][1] = k})

\* the header is appended whether or not the key is present
SetAppend(h, k, v) == Append(h, <<k, v>>)

\* headers.setdefault(key, value): append only when the key is absent
SetDefault(h, k, v) == IF HasHeader(h, k) THEN h ELSE Append(h, <<k, v>>)

TextTypes == {"text/plain"}

\* Response.init_headers(headers) for a response without a body attribute
InitHeaders(headers, media_type) ==
   LET raw == IF headers = None THEN <<>>
              ELSE [i \in 1..Len(Val(headers)) |->
                      <<Lower(Val(headers)[i][1]), Val(headers)[i][2]>>]
       content_type == IF Val(media_type) \in TextTypes
                       THEN Val(media_type) \o "; charset=utf-8" ELSE Val(media_type)
   IN  IF media_type # None /\ ~HasHeader(raw, "content-type")
       THEN Append(raw, <<"content-type", content_type>>)
       ELSE raw

(***************************************************************************)
(* BaseFileResponse: header builders.                                      *)
(***************************************************************************)
\* the disposition type is ignored: the value always says attachment
ContentDispositionAttachmentOnly(content_disposition_type, filename) ==
   LET content_disposition_filename == Quote(filename)
   IN  IF content_disposition_filename # filename
       THEN "attachment; filename*=utf-8''" \o Join(content_disposition_filename)
       ELSE "attachment; filename=\"" \o Join(filename) \o "\""

\* the value set_content_disposition_header computes
ContentDisposition(content_disposition_type, filename) ==
   LET content_disposition_filename == Quote(filename)
   IN  IF content_disposition_filename # filename
       THEN content_disposition_type \o "; filename*=utf-8''" \o Join(content_disposition_filename)
       ELSE content_disposition_type \o "; filename=\"" \o Join(filename) \o "\""

set_content_disposition_header(h, content_disposition_type, filename) ==
   SetDefault(h, "content-disposition", ContentDisposition(content_disposition_type, filename))

ContentLength(size) == Str(size)

Etag(size, mtime) == "\"" \o Md5Hexdigest(StrFloat(mtime) \o "-" \o Str(size)) \o "\""

set_stat_headers(h, size, mtime) ==
   SetDefault(SetDefault(SetDefault(h,
      "content-length", ContentLength(size)),
      "last-modified", FormatDate(mtime)),
      "etag", Etag(size, mtime))

(***************************************************************************)
(* Constructors.  A response object is a record of its attributes.         *)
(***************************************************************************)
\* BaseFileResponse.__init__; a is the record of the keyword arguments
BaseInit(kind, a) ==
   LET mt == IF a.media_type = None /\ a.filename # None
             THEN (IF GuessType(Val(a.filename)) # None
                   THEN GuessType(Val(a.filename)) ELSE Some("text/plain"))
             ELSE a.media_type
       h0 == InitHeaders(a.headers, mt)
       h1 == IF a.filename # None
             THEN set_content_disposition_header(h0, a.content_disposition_type,
                                                 Val(a.filename))
             ELSE h0
   IN  [kind |-> kind, status_code |-> a.status_code, media_type |-> mt,
        background |-> a.background, filename |-> a.filename, raw_headers |-> h1,
        size |-> a.size, mtime |-> a.mtime, chunk_size |-> a.chunk_size,
        path |-> <<>>, stat_result |-> None, content |-> <<>>]

\* FileResponse.__init__
FileResponseInit(path, a, stat_result) ==
   LET mt == IF a.media_type = None /\ a.filename = None THEN GuessType(path)
             ELSE a.media_type
       size == IF stat_result # None THEN Some(Val(stat_result).st_size) ELSE None
       mtime == IF stat_result # None THEN Some(Val(stat_result).st_mtime) ELSE None
       base == BaseInit("file", [a EXCEPT !.media_type = mt, !.size = size, !.mtime = mtime])
   IN  [base EXCEPT !.path = path, !.stat_result = stat_result]

\* BytesFileResponse.__init__
BytesFileResponseInit(content, a) == [BaseInit("bytes", a) EXCEPT !.content = content]

\* TextFileResponse.__init__
TextFileResponseInit(content, a) == [BaseInit("text", a) EXCEPT !.content = Encode(content)]

\* JsonFileResponse.__init__
JsonFileResponseInit(content, a) ==
   [BytesFileResponseInit(Encode(JsonDumps(content)), a) EXCEPT !.kind = "json"]

(***************************************************************************)
(* State.                                                                  *)
(***************************************************************************)
VARIABLES
   self,        \* the response object: a record of its attributes
   given,       \* the constructor's arguments, as the caller gave them
   fs,          \* the file system entry at self.path: kind, data, mtime
   scope,       \* the request scope: method, extensions
   pc,          \* position of __call__
   frames,      \* messages accepted by send, in order
   produced,    \* chunks yielded by the content iterator, in order
   chunk,       \* the chunk of the current loop iteration
   chunk_index, \* position of slicer's range
   more_body,   \* the local more_body of __call__
   handle,      \* the file handle of iterate_content: unopened, open, closed
   error,       \* the exception __call__ raised, if any
   log,         \* history of the call's events
   bg,          \* the cleanup task: invocations, progress
   worker       \* the job a worker thread still runs for a cancelled await

vars == <<self, given, fs, scope, pc, frames, produced, chunk, chunk_index, more_body, handle,
          error, log, bg, worker>>

(***************************************************************************)
(* Inputs.                                                                 *)
(***************************************************************************)
ByteAlphabet == {97, 98}
TextAlphabet == {97, 233}

SeqsUpTo(S, n) == UNION {[1..k -> S] : k \in 0..n}

Methods == {"GET", "HEAD", "head", "Head"}

\* the keys of scope['extensions']: none, or the pathsend extension
ScopeExtensions == {{}, {"http.response.pathsend"}}

\* the header names a caller supplies, in the caller's spelling
CallerNames == <<"content-disposition", "Content-Length", "last-modified", "ETag">>

\* the caller's header mapping holding the names at the positions of I
CallerHeaders(I) ==
   LET F[i \in 0..Len(CallerNames)] ==
          IF i = 0 THEN <<>>
          ELSE IF i \in I THEN Append(F[i - 1], <<CallerNames[i], "caller">>) ELSE F[i - 1]
   IN  F[Len(CallerNames)]

AllHeaderArgs == {None} \cup {Some(CallerHeaders(I)) : I \in SUBSET (1..Len(CallerNames))}

PngName == <<97, 46, 112, 110, 103>>            \* a.png
HanName == <<20320, 46, 116, 120, 116>>         \* U+4F60 .txt
PathName == <<47, 120, 121, 122>>               \* /xyz
TxtPath == <<47, 120, 46, 116, 120, 116>>      \* /x.txt
SpaceName == <<97, 32, 98>>                     \* a b
BareName == <<120, 121, 122>>                   \* xyz

\* the modification time of the entry at the path
FileMtimes == {30}
\* the values time.monotonic() returns during the call
Clock == {41, 42}

\* the st_size os.stat reports for a directory: the size of the directory entry
\* itself, one block on the file systems the tests run on
DirSizes == {4096}

\* os.stat(path) of an existing entry
Stat(e) == [st_size |-> e.size, st_mtime |-> e.mtime, st_mode |-> e.kind]

\* the stat_result argument: absent, or a status taken earlier whose mode is stat_mode
StatResultArg(stat_mode, e) ==
   IF stat_mode = None THEN None ELSE Some([Stat(e) EXCEPT !.st_mode = Val(stat_mode)])

\* the file system entries a path may name
FsEntries ==
   {[kind |-> "regular", data |-> d, size |-> Len(d), mtime |-> m] :
       d \in SeqsUpTo(ByteAlphabet, MaxLen), m \in FileMtimes}
   \cup [kind : {"dir"}, data : {<<>>}, size : DirSizes, mtime : FileMtimes]
   \cup [kind : {"missing"}, data : {<<>>}, size : {0}, mtime : FileMtimes]

\* the content argument of each in-memory class, before encoding
Contents(kind) ==
   CASE kind = "bytes" -> SeqsUpTo(ByteAlphabet, MaxLen)
     [] kind = "text" -> SeqsUpTo(TextAlphabet, MaxTextLen)
     [] kind = "json" -> SeqsUpTo({<<97>>, <<233>>}, MaxItems)

\* the response a constructor call builds from the arguments a, the content c and
\* the precomputed file status sr
Construct(a, c, sr) ==
   CASE a.kind = "file" -> FileResponseInit(a.path, a, sr)
     [] a.kind = "bytes" -> BytesFileResponseInit(c, a)
     [] a.kind = "text" -> TextFileResponseInit(c, a)
     [] a.kind = "json" -> JsonFileResponseInit(c, a)

\* the state after construction, for constructor arguments drawn from A and a
\* request method drawn from M
InitFrom(A, M) ==
   /\ \E a \in A :
         \/ /\ a.kind = "file"
            /\ a.size = None /\ a.mtime = None
            /\ \E e \in FsEntries :
                  /\ fs = e
                  /\ self = Construct(a, <<>>, StatResultArg(a.stat_mode, e))
                  /\ given = [args |-> a, content |-> <<>>]
         \/ /\ a.kind # "file"
            /\ a.filename # None /\ a.stat_mode = None
            /\ fs \in [kind : {"missing"}, data : {<<>>}, size : {0}, mtime : FileMtimes]
            /\ \E c \in Contents(a.kind) :
                  /\ self = Construct(a, c, None)
                  /\ given = [args |-> a, content |-> c]
   /\ scope \in [method : M, extensions : ScopeExtensions]
   /\ pc = "constructed"
   /\ frames = <<>>
   /\ produced = <<>>
   /\ chunk = <<>>
   /\ chunk_index = 0
   /\ more_body = TRUE
   /\ handle = "unopened"
   /\ error = None
   /\ log = <<>>
   /\ bg = [runs |-> 0, progress |-> 0, finished |-> 0]
   /\ worker = "none"

(***************************************************************************)
(* The exceptions the code raises.                                         *)
(***************************************************************************)
DoesNotExist(path) ==
   [type |-> "RuntimeError", prefix |-> "File at path ", path |-> path,
    suffix |-> " does not exist."]

IsNotAFile(path) ==
   [type |-> "RuntimeError", prefix |-> "File at path ", path |-> path,
    suffix |-> " is not a file."]

OsError(type, path) == [type |-> type, prefix |-> "", path |-> path, suffix |-> ""]

SendError == [type |-> "SendError", prefix |-> "", path |-> <<>>, suffix |-> ""]

CancelledError == [type |-> "CancelledError", prefix |-> "", path |-> <<>>, suffix |-> ""]

\* the error is recorded but the call carries on to post_call
RaiseAndContinue(exc) ==
   /\ pc' = "post"
   /\ error' = Some(exc)

Raise(exc) ==
   /\ pc' = "raised"
   /\ error' = Some(exc)

(***************************************************************************)
(* pre_call of the three classes that define it.                           *)
(***************************************************************************)
\* the size and mtime the in-memory pre_call hands to set_stat_headers
MemorySize(r) == IF r.size = None \/ Val(r.size) = 0 THEN Len(r.content) ELSE Val(r.size)

MemoryMtime(r, now) == IF r.mtime = None \/ Val(r.mtime) = 0 THEN now ELSE Val(r.mtime)

\* pre_call without the S_ISREG test on the mode
FilePreCallNoModeTest ==
   /\ pc = "constructed"
   /\ self.kind = "file"
   /\ UNCHANGED <<given, fs, scope, frames, produced, chunk, chunk_index, more_body, handle,
                  bg, worker>>
   /\ IF self.stat_result = None
      THEN IF fs.kind = "missing"
           THEN /\ Raise(DoesNotExist(self.path))
                /\ UNCHANGED <<self, log>>
           ELSE /\ self' = [self EXCEPT !.raw_headers =
                               set_stat_headers(@, Stat(fs).st_size, Stat(fs).st_mtime)]
                /\ pc' = "start"
                /\ log' = Append(log, "pre_call")
                /\ UNCHANGED error
      ELSE /\ UNCHANGED <<self, error>>
           /\ pc' = "start"
           /\ log' = Append(log, "pre_call")

\* FileResponse.pre_call
FilePreCall ==
   /\ pc = "constructed"
   /\ self.kind = "file"
   /\ UNCHANGED <<given, fs, scope, frames, produced, chunk, chunk_index, more_body, handle,
                  bg, worker>>
   /\ IF self.stat_result = None
      THEN IF fs.kind = "missing"
           THEN /\ Raise(DoesNotExist(self.path))
                /\ UNCHANGED <<self, log>>
           ELSE /\ self' = [self EXCEPT !.raw_headers =
                               set_stat_headers(@, Stat(fs).st_size, Stat(fs).st_mtime)]
                /\ IF Stat(fs).st_mode # "regular"
                   THEN /\ Raise(IsNotAFile(self.path))
                        /\ UNCHANGED log
                   ELSE /\ pc' = "start"
                        /\ log' = Append(log, "pre_call")
                        /\ UNCHANGED error
      ELSE /\ UNCHANGED self
           /\ IF Val(self.stat_result).st_mode # "regular"
              THEN /\ Raise(IsNotAFile(self.path))
                   /\ UNCHANGED log
              ELSE /\ pc' = "start"
                   /\ log' = Append(log, "pre_call")
                   /\ UNCHANGED error

\* BytesFileResponse.pre_call, inherited by JsonFileResponse
BytesPreCall ==
   /\ pc = "constructed"
   /\ self.kind \in {"bytes", "json"}
   /\ \E now \in Clock :
         self' = [self EXCEPT !.raw_headers =
                     set_stat_headers(@, MemorySize(self), MemoryMtime(self, now))]
   /\ pc' = "start"
   /\ log' = Append(log, "pre_call")
   /\ UNCHANGED <<given, fs, scope, frames, produced, chunk, chunk_index, more_body, handle,
                  error, bg, worker>>

\* TextFileResponse.pre_call
TextPreCall ==
   /\ pc = "constructed"
   /\ self.kind = "text"
   /\ \E now \in Clock :
         self' = [self EXCEPT !.raw_headers =
                     set_stat_headers(@, MemorySize(self), MemoryMtime(self, now))]
   /\ pc' = "start"
   /\ log' = Append(log, "pre_call")
   /\ UNCHANGED <<given, fs, scope, frames, produced, chunk, chunk_index, more_body, handle,
                  error, bg, worker>>

(***************************************************************************)
(* BaseFileResponse.__call__ after pre_call.                               *)
(***************************************************************************)
StartFrame(r) ==
   [type |-> "http.response.start", status |-> r.status_code, headers |-> r.raw_headers,
    body |-> <<>>, more_body |-> FALSE]

BodyFrame(body, more) ==
   [type |-> "http.response.body", status |-> 0, headers |-> <<>>,
    body |-> body, more_body |-> more]

\* the comparison is exact: only the spelling HEAD takes the HEAD branch
IsHeadCaseSensitive(sc) == sc.method = "HEAD"

\* scope['method'].upper() == 'HEAD'
IsHead(sc) == Upper(sc.method) = "HEAD"

\* await send({'type': 'http.response.start', ...})
SendStart ==
   /\ pc = "start"
   /\ frames' = Append(frames, StartFrame(self))
   /\ log' = Append(log, "start")
   /\ pc' = IF IsHead(scope) THEN "head" ELSE "iterate"
   /\ UNCHANGED <<self, given, fs, scope, produced, chunk, chunk_index, more_body, handle,
                  error, bg, worker>>

\* the HEAD branch: one empty body frame
SendHeadBody ==
   /\ pc = "head"
   /\ frames' = Append(frames, BodyFrame(<<>>, FALSE))
   /\ log' = Append(log, "body")
   /\ pc' = "post"
   /\ UNCHANGED <<self, given, fs, scope, produced, chunk, chunk_index, more_body, handle,
                  error, bg, worker>>

\* the slice runs one element too far: text[chunk_index : chunk_index + chunk_size + 1]
SliceOneTooFar(text, index, chunk_size) ==
   SubSeq(text, index + 1, Min(index + chunk_size + 1, Len(text)))

\* text[chunk_index : chunk_index + chunk_size]
Slice(text, index, chunk_size) == SubSeq(text, index + 1, Min(index + chunk_size, Len(text)))

\* the comparison is len(chunk) < chunk_size
MoreBodyInverted(c, chunk_size) == Len(c) < chunk_size

\* more_body = len(chunk) == self.chunk_size
MoreBody(c, chunk_size) == Len(c) = chunk_size

\* one step of the iterator over slicer(self.content, chunk_size); the loop body
\* receives the chunk and assigns more_body before it awaits send
SlicerNext ==
   /\ pc = "iterate"
   /\ self.kind \in {"bytes", "text", "json"}
   /\ IF chunk_index < Len(self.content)
      THEN /\ chunk' = Slice(self.content, chunk_index, self.chunk_size)
           /\ produced' = Append(produced, chunk')
           /\ chunk_index' = chunk_index + self.chunk_size
           /\ more_body' = MoreBody(chunk', self.chunk_size)
           /\ pc' = "send"
      ELSE /\ pc' = "post"
           /\ UNCHANGED <<chunk, produced, chunk_index, more_body>>
   /\ UNCHANGED <<self, given, fs, scope, frames, handle, error, log, bg, worker>>

\* file.read(chunk_size) on a handle at the start of the file
Read(data, chunk_size) == SubSeq(data, 1, Min(chunk_size, Len(data)))

\* the async generator FileResponse.iterate_content is started:
\* await anyio.open_file(self.path, mode='rb') and entry into the async with
FileOpen ==
   /\ pc = "iterate"
   /\ self.kind = "file"
   /\ handle = "unopened"
   /\ UNCHANGED <<self, given, fs, scope, frames, produced, chunk, chunk_index, more_body, log,
                  bg, worker>>
   /\ IF fs.kind = "regular"
      THEN /\ handle' = "open"
           /\ pc' = "read"
           /\ UNCHANGED error
      ELSE /\ Raise(OsError(IF fs.kind = "missing" THEN "FileNotFoundError"
                            ELSE "IsADirectoryError", self.path))
           /\ UNCHANGED handle

\* await file.read(chunk_size) returns and the generator yields the bytes read;
\* the loop body receives the chunk and assigns more_body before it awaits send
FileRead ==
   /\ pc = "read"
   /\ chunk' = Read(fs.data, self.chunk_size)
   /\ produced' = Append(produced, chunk')
   /\ more_body' = MoreBody(chunk', self.chunk_size)
   /\ pc' = "send"
   /\ UNCHANGED <<self, given, fs, scope, frames, chunk_index, handle, error, log, bg, worker>>

\* the generator is resumed after its only yield: the async with is left, the
\* file closed, and the iteration ends
FileClose ==
   /\ pc = "iterate"
   /\ self.kind = "file"
   /\ handle = "open"
   /\ handle' = "closed"
   /\ pc' = "post"
   /\ UNCHANGED <<self, given, fs, scope, frames, produced, chunk, chunk_index, more_body,
                  error, log, bg, worker>>

\* post_call is awaited inside the loop, after every chunk
SendChunkThenPost ==
   /\ pc = "send"
   /\ frames' = Append(frames, BodyFrame(chunk, more_body))
   /\ log' = log \o <<"body", "post_call">>
   /\ pc' = "iterate"
   /\ UNCHANGED <<self, given, fs, scope, produced, chunk, chunk_index, more_body, handle,
                  error, bg, worker>>

\* await send({'type': 'http.response.body', ...}) of the loop body returns
SendChunk ==
   /\ pc = "send"
   /\ frames' = Append(frames, BodyFrame(chunk, more_body))
   /\ log' = Append(log, "body")
   /\ pc' = "iterate"
   /\ UNCHANGED <<self, given, fs, scope, produced, chunk, chunk_index, more_body, handle,
                  error, bg, worker>>

\* send raises: the message is not delivered and __call__ is left
SendRaises ==
   /\ pc \in {"start", "head", "send"}
   /\ Raise(SendError)
   /\ UNCHANGED <<self, given, fs, scope, frames, produced, chunk, chunk_index, more_body, handle,
                  log, bg, worker>>

\* the call is suspended at an await that hands control to the event loop: the
\* os.stat of FileResponse.pre_call, a send, the next step of the content iterator
\* (open, read and close of the file, or the worker thread that advances slicer),
\* or a suspension of the cleanup task.  The in-memory pre_call and post_call
\* never suspend.
Suspended ==
   \/ pc = "constructed" /\ self.kind = "file" /\ self.stat_result = None
   \/ pc \in {"start", "head", "send", "iterate", "read", "closing", "cancelling"}
   \/ pc = "in_background" /\ bg.progress < Val(self.background)

\* where the worker thread of a cancelled await stands when CancelledError is raised
ThreadStages == {"not started", "running", "finished"}

\* the task is cancelled while suspended anywhere but in file.read:
\* CancelledError is raised at the await and leaves __call__.  The work handed
\* to a worker thread is not undone: the thread of anyio.open_file opens the
\* file, held by an object nobody closes, and the thread of iterate_in_threadpool
\* advances slicer, before or after the call has raised, unless the thread had
\* not started the work.  A file opened before the call raises is still open
\* then, or its dropped object has already been collected and the file closed.
\* Cancelled in the close of the file, the call leaves with the file closed or
\* still open.
Cancelled ==
   /\ Suspended
   /\ pc \notin {"read", "cancelling"}
   /\ Raise(CancelledError)
   /\ IF pc = "iterate" /\ self.kind = "file"
      THEN IF handle = "open"
           THEN handle' \in {"open", "closed"} /\ UNCHANGED <<chunk_index, worker>>
           ELSE IF fs.kind = "regular"
                THEN \E stage \in ThreadStages :
                        /\ handle' \in IF stage = "finished" THEN {"open", "closed"}
                                       ELSE {handle}
                        /\ worker' = IF stage = "running" THEN "open" ELSE "none"
                        /\ UNCHANGED chunk_index
                ELSE UNCHANGED <<handle, chunk_index, worker>>
      ELSE IF pc = "iterate" /\ chunk_index < Len(self.content)
           THEN \E stage \in ThreadStages :
                   /\ chunk_index' = IF stage = "finished" THEN chunk_index + self.chunk_size
                                     ELSE chunk_index
                   /\ worker' = IF stage = "running" THEN "next" ELSE "none"
                   /\ UNCHANGED handle
           ELSE IF pc = "closing"
                THEN handle' \in {"open", "closed"} /\ UNCHANGED <<chunk_index, worker>>
                ELSE UNCHANGED <<handle, chunk_index, worker>>
   /\ UNCHANGED <<self, given, fs, scope, frames, produced, chunk, more_body, log, bg>>

\* the task is cancelled while suspended in file.read: CancelledError is raised
\* inside the async with, and the generator goes on to await the close of the
\* file in the exit of the block
ReadCancelled ==
   /\ pc = "read"
   /\ pc' = "cancelling"
   /\ UNCHANGED <<self, given, fs, scope, frames, produced, chunk, chunk_index, more_body,
                  handle, error, log, bg, worker>>

\* the close awaited in the exit of the block ends, the file closed, or is
\* cancelled as well by the enclosing cancel scope, the file left open:
\* CancelledError leaves the generator and __call__
CancelledRaises ==
   /\ pc = "cancelling"
   /\ handle' \in {"open", "closed"}
   /\ Raise(CancelledError)
   /\ UNCHANGED <<self, given, fs, scope, frames, produced, chunk, chunk_index, more_body, log,
                  bg, worker>>

\* the worker thread of a cancelled await finishes its job after the call has
\* raised: the file is opened, or slicer advanced
WorkerFinishes ==
   /\ pc = "raised"
   /\ worker # "none"
   /\ worker' = "none"
   /\ IF worker = "open"
      THEN handle' = "open" /\ UNCHANGED chunk_index
      ELSE chunk_index' = chunk_index + self.chunk_size /\ UNCHANGED handle
   /\ UNCHANGED <<self, given, fs, scope, pc, frames, produced, chunk, more_body, error, log,
                  bg>>

\* file.read raises inside the async with: the generator goes on to await the
\* close of the file in the exit of the block
ReadFails ==
   /\ pc = "read"
   /\ pc' = "closing"
   /\ UNCHANGED <<self, given, fs, scope, frames, produced, chunk, chunk_index, more_body,
                  handle, error, log, bg, worker>>

\* the file is closed and the OSError of the read, which names no file, leaves
\* the generator and __call__
ReadRaises ==
   /\ pc = "closing"
   /\ handle' = "closed"
   /\ Raise(OsError("OSError", None))
   /\ UNCHANGED <<self, given, fs, scope, frames, produced, chunk, chunk_index, more_body, log,
                  bg, worker>>

\* the generator a failed call left inside its async with, or a file object
\* nobody holds, is finalized by the garbage collector at some later time, or the
\* worker thread of a cancelled close ends: the file is closed
Finalize ==
   /\ pc = "raised"
   /\ handle = "open"
   /\ handle' = "closed"
   /\ UNCHANGED <<self, given, fs, scope, pc, frames, produced, chunk, chunk_index, more_body,
                  error, log, bg, worker>>

\* await self.post_call(), then the test on self.background
PostCall ==
   /\ pc = "post"
   /\ log' = Append(log, "post_call")
   /\ pc' = IF self.background # None THEN "background" ELSE "done"
   /\ UNCHANGED <<self, given, fs, scope, frames, produced, chunk, chunk_index, more_body, handle,
                  error, bg, worker>>

\* the task is started but not awaited: __call__ returns at once
BackgroundNotAwaited ==
   /\ pc = "background"
   /\ bg' = [bg EXCEPT !.runs = @ + 1, !.progress = 0]
   /\ log' = Append(log, "background")
   /\ pc' = "done"
   /\ UNCHANGED <<self, given, fs, scope, frames, produced, chunk, chunk_index, more_body, handle,
                  error, worker>>

\* await self.background(): the task is entered
BackgroundBegin ==
   /\ pc = "background"
   /\ bg' = [bg EXCEPT !.runs = @ + 1, !.progress = 0]
   /\ log' = Append(log, "background")
   /\ pc' = "in_background"
   /\ UNCHANGED <<self, given, fs, scope, frames, produced, chunk, chunk_index, more_body, handle,
                  error, worker>>

\* the task resumes after one of its own suspensions
BackgroundStep ==
   /\ pc = "in_background"
   /\ bg.progress < Val(self.background)
   /\ bg' = [bg EXCEPT !.progress = @ + 1]
   /\ UNCHANGED <<self, given, fs, scope, pc, frames, produced, chunk, chunk_index, more_body,
                  handle, error, log, worker>>

\* the task returns and with it __call__
BackgroundReturn ==
   /\ pc = "in_background"
   /\ bg.progress = Val(self.background)
   /\ bg' = [bg EXCEPT !.finished = @ + 1]
   /\ pc' = "done"
   /\ UNCHANGED <<self, given, fs, scope, frames, produced, chunk, chunk_index, more_body, handle,
                  error, log, worker>>

Next ==
   \/ FilePreCall
   \/ BytesPreCall
   \/ TextPreCall
   \/ SendStart
   \/ SendHeadBody
   \/ SlicerNext
   \/ FileOpen
   \/ FileRead
   \/ FileClose
   \/ SendChunk
   \/ SendRaises
   \/ Cancelled
   \/ ReadCancelled
   \/ CancelledRaises
   \/ WorkerFinishes
   \/ ReadFails
   \/ ReadRaises
   \/ Finalize
   \/ PostCall
   \/ BackgroundBegin
   \/ BackgroundStep
   \/ BackgroundReturn

(***************************************************************************)
(* Specifications.                                                         *)
(***************************************************************************)
ChunkSizes == 1..MaxChunk

\* every content and threshold, the metadata arguments at their defaults
StreamArgs ==
   [kind : {"file", "bytes", "text", "json"},
    path : {PathName},
    status_code : {200},
    headers : {None},
    media_type : {None},
    background : {None, Some(BgSteps)},
    filename : {None, Some(PngName)},
    stat_mode : {None, Some("regular"), Some("dir")},
    size : {None},
    mtime : {None},
    content_disposition_type : {"attachment"},
    chunk_size : ChunkSizes]

Init == InitFrom(StreamArgs, Methods)

Spec == Init /\ [][Next]_vars

\* every metadata argument, one threshold
MetaArgs ==
   [kind : {"file", "bytes", "text", "json"},
    path : {PathName},
    status_code : {200},
    headers : AllHeaderArgs,
    media_type : {None},
    background : {Some(BgSteps)},
    filename : {Some(PngName)},
    stat_mode : {None, Some("regular"), Some("dir")},
    size : {None, Some(0), Some(2)},
    mtime : {None, Some(0), Some(5)},
    content_disposition_type : {"attachment"},
    chunk_size : {MaxChunk}]

InitMeta == InitFrom(MetaArgs, {"GET", "head"})

SpecMeta == InitMeta /\ [][Next]_vars

(***************************************************************************)
(* Observations on a state, used by the properties.                        *)
(***************************************************************************)
\* the method of the request is HEAD in some letter case
HeadRequest == scope.method \in {"HEAD", "head", "Head"}

\* the call returned normally
Completed == pc = "done"

\* the call ended because its task was cancelled
CallCancelled == error # None /\ Val(error).type = "CancelledError"

\* the call ended with an error raised by pre_call, the content iterator or send
Failed == error # None /\ Val(error).type # "CancelledError"

\* the bytes the response was built to deliver
OriginalContent == IF self.kind = "file" THEN fs.data ELSE self.content

StartIndexes == {i \in 1..Len(frames) : frames[i].type = "http.response.start"}

BodyIndexes == {i \in 1..Len(frames) : frames[i].type = "http.response.body"}

\* the payloads of the body frames, in emission order
Bodies == [i \in 1..(Len(frames) - 1) |-> frames[i + 1].body]

RECURSIVE Concat(_)
Concat(ss) == IF ss = <<>> THEN <<>> ELSE Head(ss) \o Concat(Tail(ss))

\* position of an event in the order pre_call, start, body, post_call, background
Rank(ev) ==
   CASE ev = "pre_call" -> 1
     [] ev = "start" -> 2
     [] ev = "body" -> 3
     [] ev = "post_call" -> 4
     [] ev = "background" -> 5

Count(ev) == Cardinality({i \in 1..Len(log) : log[i] = ev})

(***************************************************************************)
(* C1.  On a non-HEAD request that completes, the payloads of the body     *)
(* frames, concatenated in emission order, are the original content bytes, *)
(* for every content source and every threshold.                           *)
(* The file-backed source reads one chunk only, so a file longer than the  *)
(* threshold is cut short: the statement is violated.                      *)
(***************************************************************************)
C1_BodyReproducesContent ==
   (Completed /\ ~HeadRequest) => Concat(Bodies) = OriginalContent

(***************************************************************************)
(* C2.  A non-HEAD call that completes has terminated its body stream: a   *)
(* body frame was emitted and the last one has more_body = FALSE, also for *)
(* an empty content and for a length that is a multiple of the threshold.  *)
(* The code emits no terminating frame in those two cases: the statement   *)
(* is violated.                                                            *)
(***************************************************************************)
C2_StreamTerminated ==
   (Completed /\ ~HeadRequest) =>
      /\ BodyIndexes # {}
      /\ frames[Len(frames)].type = "http.response.body"
      /\ frames[Len(frames)].more_body = FALSE

(***************************************************************************)
(* C3.  A HEAD request, in any letter case, yields one start frame and     *)
(* then one body frame with an empty body and more_body = FALSE; no chunk  *)
(* is produced and the file is never opened.                               *)
(***************************************************************************)
C3_HeadSendsOneEmptyBody ==
   HeadRequest =>
      /\ produced = <<>>
      /\ handle = "unopened"
      /\ Len(frames) <= 2
      /\ Len(frames) >= 1 => frames[1] = StartFrame(self)
      /\ Len(frames) = 2 => frames[2] = BodyFrame(<<>>, FALSE)
      /\ pc \in {"post", "background", "in_background", "done"} => Len(frames) = 2

C3_Witness ==
   /\ Completed
   /\ scope.method = "head"
   /\ self.kind = "file"
   /\ Len(fs.data) > 1
   /\ Len(frames) = 2

(***************************************************************************)
(* C4.  The events of a call occur in the order pre_call, one start frame, *)
(* the body frames, post_call, cleanup task.  The start frame is the first *)
(* frame, and on a non-HEAD request the body frames carry the produced     *)
(* chunks, one frame per chunk, in production order.                       *)
(***************************************************************************)
C4_EventsInOrder ==
   /\ \A i \in 1..Len(log) : \A j \in (i + 1)..Len(log) :
         /\ Rank(log[i]) <= Rank(log[j])
         /\ Rank(log[i]) = Rank(log[j]) => log[i] = "body"
   /\ Len(log) >= 1 => log[1] = "pre_call"
   /\ Len(log) >= 2 => log[2] = "start"
   /\ Count("background") = 1 => Count("post_call") = 1
   /\ Len(frames) = Count("start") + Count("body")
   /\ StartIndexes = (IF frames = <<>> THEN {} ELSE {1})
   /\ ~HeadRequest =>
         /\ Len(Bodies) <= Len(produced)
         /\ Len(produced) <= Len(Bodies) + 1
         /\ Bodies = SubSeq(produced, 1, Len(Bodies))
         /\ Count("post_call") = 1 => Bodies = produced
   /\ Completed =>
         /\ Count("post_call") = 1
         /\ Count("background") = (IF self.background = None THEN 0 ELSE 1)

C4_Witness ==
   /\ Completed
   /\ ~HeadRequest
   /\ Len(produced) >= 2
   /\ log[Len(log)] = "background"

(***************************************************************************)
(* C5.  A supplied cleanup task has not run before the call, is entered    *)
(* once, after the last frame and after post_call, and has finished all of *)
(* its own steps when the call returns; once entered, the call leaves it   *)
(* only by returning or by being cancelled inside it.                      *)
(***************************************************************************)
C5_CleanupOnceAfterBody ==
   /\ pc = "constructed" => bg.runs = 0
   /\ bg.runs <= 1
   /\ bg.runs = Count("background")
   /\ bg.runs = 1 =>
         /\ self.background # None
         /\ log[Len(log)] = "background"
         /\ log[Len(log) - 1] = "post_call"
         /\ pc \in {"in_background", "done"} \/ CallCancelled
   /\ (Completed /\ self.background # None) =>
         /\ bg.runs = 1
         /\ bg.finished = 1
         /\ bg.progress = Val(self.background)
   /\ bg.finished = 1 => Completed

C5_Witness ==
   /\ Completed
   /\ bg.runs = 1
   /\ bg.finished = 1
   /\ bg.progress = BgSteps
   /\ Cardinality(BodyIndexes) >= 2

(***************************************************************************)
(* Observations on the headers.                                            *)
(***************************************************************************)
StatHeaderNames == {"content-length", "last-modified", "etag"}

\* the caller's header mapping, with the names lower-cased
CallerMapping ==
   IF given.args.headers = None THEN <<>>
   ELSE [i \in 1..Len(Val(given.args.headers)) |->
           <<Lower(Val(given.args.headers)[i][1]), Val(given.args.headers)[i][2]>>]

CallerSupplied(k) == HasHeader(CallerMapping, k)

\* the response was built by one of the in-memory classes
InMemory == self.kind \in {"bytes", "text", "json"}

\* the error of the call is a RuntimeError whose message ends with the suffix
RaisedRuntimeError(suffix) ==
   /\ pc = "raised"
   /\ error # None
   /\ Val(error).type = "RuntimeError"
   /\ Val(error).suffix = suffix

\* bytes of one character in UTF-8
Utf8Len(cp) == IF cp < 128 THEN 1 ELSE IF cp < 2048 THEN 2 ELSE 3

RECURSIVE TextByteLength(_)
TextByteLength(text) ==
   IF text = <<>> THEN 0 ELSE Utf8Len(Head(text)) + TextByteLength(Tail(text))

\* bytes of one character of a string in a JSON document: itself, or \uXXXX
JsonCharLen(cp) == IF cp \in {34, 92} THEN 2 ELSE IF cp >= 32 /\ cp < 127 THEN 1 ELSE 6

RECURSIVE JsonStringsLength(_)
JsonStringsLength(items) ==
   IF items = <<>> THEN 0
   ELSE 2 + JsonCharLen(Head(items)[1]) * Len(Head(items)) + JsonStringsLength(Tail(items))

\* bytes of the JSON document of a list of one-character strings
JsonByteLength(items) ==
   2 + JsonStringsLength(items) + (IF Len(items) > 1 THEN 2 * (Len(items) - 1) ELSE 0)

\* the byte length of the content the caller handed over
GivenByteLength ==
   CASE self.kind = "file" -> Len(fs.data)
     [] self.kind = "bytes" -> Len(given.content)
     [] self.kind = "text" -> TextByteLength(given.content)
     [] self.kind = "json" -> JsonByteLength(given.content)

(***************************************************************************)
(* C6, as stated.  Every file-backed response whose path is missing fails  *)
(* with the RuntimeError "does not exist" and every one whose path is a    *)
(* directory with the RuntimeError "is not a file", no frame being sent.   *)
(* Calls that are cancelled are left aside.  With a precomputed file       *)
(* status pre_call does not stat the path, so the statement is violated.   *)
(***************************************************************************)
C6_AsStated ==
   (self.kind = "file" /\ pc # "constructed" /\ ~CallCancelled) =>
      /\ fs.kind = "missing" => RaisedRuntimeError(" does not exist.") /\ frames = <<>>
      /\ fs.kind = "dir" => RaisedRuntimeError(" is not a file.") /\ frames = <<>>

(***************************************************************************)
(* C6, amended.  A file-backed response built without a precomputed file   *)
(* status fails in pre_call with the RuntimeError "does not exist" when    *)
(* its path is missing and with the RuntimeError "is not a file" when its  *)
(* path is a directory; one built with a precomputed status fails with "is *)
(* not a file" when that status is not of a regular file.  No frame has    *)
(* been sent when the error is raised.  A call cancelled while the stat is *)
(* pending ends with CancelledError instead, also before any frame.        *)
(***************************************************************************)
C6_StatFailsBeforeAnyFrame ==
   /\ (self.kind = "file" /\ pc # "constructed" /\ ~CallCancelled) =>
         /\ (self.stat_result = None /\ fs.kind = "missing") =>
               RaisedRuntimeError(" does not exist.") /\ frames = <<>>
         /\ (self.stat_result = None /\ fs.kind = "dir") =>
               RaisedRuntimeError(" is not a file.") /\ frames = <<>>
         /\ (self.stat_result # None /\ Val(self.stat_result).st_mode # "regular") =>
               RaisedRuntimeError(" is not a file.") /\ frames = <<>>
   /\ (self.kind = "file" /\ CallCancelled /\ Count("pre_call") = 0) =>
         /\ self.stat_result = None
         /\ frames = <<>>

C6_Witness ==
   /\ self.kind = "file"
   /\ self.stat_result = None
   /\ fs.kind = "dir"
   /\ RaisedRuntimeError(" is not a file.")
   /\ frames = <<>>

(***************************************************************************)
(* C7.  A header the caller supplied among content-disposition,            *)
(* content-length, last-modified and etag keeps the caller's value in the  *)
(* response and in the start frame, and occurs once.                       *)
(***************************************************************************)
C7_CallerHeadersWin ==
   \A k \in StatHeaderNames \cup {"content-disposition"} :
      CallerSupplied(k) =>
         /\ GetHeader(self.raw_headers, k) = GetHeader(CallerMapping, k)
         /\ CountHeader(self.raw_headers, k) = 1
         /\ \A i \in StartIndexes :
               /\ GetHeader(frames[i].headers, k) = GetHeader(CallerMapping, k)
               /\ CountHeader(frames[i].headers, k) = 1

C7_Witness ==
   /\ StartIndexes # {}
   /\ InMemory
   /\ given.args.headers = Some(CallerHeaders({2}))
   /\ GetHeader(frames[1].headers, "content-length") = "caller"
   /\ HasHeader(frames[1].headers, "etag")

(***************************************************************************)
(* C8.  Every start frame carries content-length, last-modified and etag,  *)
(* for every content source, also for a file-backed response built with a  *)
(* precomputed file status.                                                *)
(* pre_call sets the headers only after its own stat: with a precomputed   *)
(* status they are missing and the statement is violated.                  *)
(***************************************************************************)
C8_StatHeadersPresent ==
   \A i \in StartIndexes : \A k \in StatHeaderNames : HasHeader(frames[i].headers, k)

(***************************************************************************)
(* C9.  In the in-memory classes a supplied size, 0 included, is the       *)
(* content-length; a supplied mtime, 0 included, is the mtime of           *)
(* last-modified and etag; only an absent size falls back to the content   *)
(* length and only an absent mtime to the clock.                           *)
(* The code tests the fields with "or": a supplied 0 is replaced by the    *)
(* fallback and the statement is violated.                                 *)
(***************************************************************************)
C9_SuppliedMetadataUsed ==
   \A i \in StartIndexes :
      InMemory =>
         LET h == frames[i].headers
             size == IF given.args.size = None THEN Len(self.content) ELSE Val(given.args.size)
             mtimes == IF given.args.mtime = None THEN Clock ELSE {Val(given.args.mtime)}
         IN  /\ ~CallerSupplied("content-length") =>
                   GetHeader(h, "content-length") = Str(size)
             /\ ~CallerSupplied("last-modified") =>
                   \E m \in mtimes : GetHeader(h, "last-modified") = FormatDate(m)
             /\ ~CallerSupplied("etag") =>
                   \E m \in mtimes : GetHeader(h, "etag") = Etag(size, m)

(***************************************************************************)
(* C10.  When the caller supplies no size and no content-length header,    *)
(* the content-length of the start frame is the decimal string of the byte *)
(* length of the content: the size of the file, the length of the bytes,   *)
(* of the encoded text, of the JSON document.                              *)
(* A file-backed response built with a precomputed file status sets no     *)
(* stat header in pre_call, so its start frame has no content-length and   *)
(* the statement is violated.                                              *)
(***************************************************************************)
C10_ContentLengthIsByteLength ==
   \A i \in StartIndexes :
      (given.args.size = None /\ ~CallerSupplied("content-length")) =>
         /\ HasHeader(frames[i].headers, "content-length")
         /\ GetHeader(frames[i].headers, "content-length") = Str(GivenByteLength)

(***************************************************************************)
(* C11.  A file-backed response invoked with a non-HEAD method under a     *)
(* scope that advertises the http.response.pathsend extension sends the    *)
(* start frame and then a pathsend frame, and no chunked body frame.       *)
(* __call__ never reads scope['extensions'] and has no pathsend message:   *)
(* it streams body frames as without the extension, so the statement is    *)
(* violated.                                                               *)
(***************************************************************************)
C11_PathsendInsteadOfChunks ==
   (/\ self.kind = "file"
    /\ ~HeadRequest
    /\ "http.response.pathsend" \in scope.extensions
    /\ Completed) =>
      /\ Len(frames) = 2
      /\ frames[1].type = "http.response.start"
      /\ frames[2].type = "http.response.pathsend"

(***************************************************************************)
(* Specification over the naming arguments: filename, path, media type,    *)
(* content-disposition type.                                               *)
(***************************************************************************)
NameArgs ==
   [kind : {"file", "bytes", "text", "json"},
    path : {PathName, TxtPath},
    status_code : {200},
    headers : {None, Some(CallerHeaders({1}))},
    media_type : {None, Some("application/octet-stream")},
    background : {Some(BgSteps)},
    filename : {None, Some(PngName), Some(HanName), Some(SpaceName), Some(BareName)},
    stat_mode : {None, Some("regular")},
    size : {None},
    mtime : {None},
    content_disposition_type : {"attachment", "inline"},
    chunk_size : {MaxChunk}]

InitNames == InitFrom(NameArgs, {"GET", "head"})

SpecNames == InitNames /\ [][Next]_vars

\* every character of the name is one that percent-encoding leaves alone
PlainName(f) ==
   \A i \in 1..Len(f) :
      \/ f[i] \in 48..57 \/ f[i] \in 65..90 \/ f[i] \in 97..122
      \/ f[i] \in {45, 46, 47, 95, 126}

\* the headers of the response and of every start frame sent
HeaderSets == {self.raw_headers} \cup {frames[i].headers : i \in StartIndexes}

(***************************************************************************)
(* C12.  With a filename and no content-disposition header from the        *)
(* caller, the header is mode; filename="raw" when the filename is its own *)
(* percent-encoding and mode; filename*=utf-8''encoded otherwise, mode     *)
(* being the content-disposition type of the constructor; without a        *)
(* filename no content-disposition header is added.                        *)
(***************************************************************************)
C12_ContentDisposition ==
   \A h \in HeaderSets :
      LET f == given.args.filename
          mode == given.args.content_disposition_type
      IN  IF CallerSupplied("content-disposition")
          THEN GetHeader(h, "content-disposition") = "caller"
          ELSE /\ f = None => ~HasHeader(h, "content-disposition")
               /\ f # None =>
                     /\ CountHeader(h, "content-disposition") = 1
                     /\ PlainName(Val(f)) =>
                           GetHeader(h, "content-disposition")
                              = mode \o "; filename=\"" \o Join(Val(f)) \o "\""
                     /\ ~PlainName(Val(f)) =>
                           GetHeader(h, "content-disposition")
                              = mode \o "; filename*=utf-8''" \o Join(Quote(Val(f)))
                     /\ (Val(f) = PngName /\ mode = "inline") =>
                           GetHeader(h, "content-disposition") = "inline; filename=\"a.png\""
                     /\ (Val(f) = HanName /\ mode = "attachment") =>
                           GetHeader(h, "content-disposition")
                              = "attachment; filename*=utf-8''%E4%BD%A0.txt"
                     /\ (Val(f) = SpaceName /\ mode = "inline") =>
                           GetHeader(h, "content-disposition")
                              = "inline; filename*=utf-8''a%20b"

C12_Witness ==
   /\ StartIndexes # {}
   /\ given.args.filename = Some(HanName)
   /\ given.args.content_disposition_type = "inline"
   /\ ~CallerSupplied("content-disposition")
   /\ GetHeader(frames[1].headers, "content-disposition")
         = "inline; filename*=utf-8''%E4%BD%A0.txt"

(***************************************************************************)
(* C13.  An explicit media type is kept; without one the media type is the *)
(* one guessed from the extension of the filename (of the path when there  *)
(* is no filename), or a generic type when the guess fails: it is never    *)
(* absent.                                                                 *)
(* A file-backed response without a filename takes the guess from the path *)
(* with no fallback, so a path without a known extension leaves the media  *)
(* type absent and the statement is violated.                              *)
(***************************************************************************)
C13_MediaTypeNeverAbsent ==
   LET name == IF given.args.filename # None THEN Val(given.args.filename)
               ELSE given.args.path
   IN  pc # "constructed" =>
          /\ given.args.media_type # None => self.media_type = given.args.media_type
          /\ given.args.media_type = None =>
                /\ self.media_type # None
                /\ GuessType(name) # None => self.media_type = GuessType(name)

(***************************************************************************)
(* C14.  The file handle of the file-backed producer is closed on every    *)
(* exit of the call (normal return, a send or read that raises while a     *)
(* chunk is in flight, cancellation) and is open only during chunk         *)
(* production.                                                             *)
(* A send that raises, or a cancellation, while the generator is suspended *)
(* at its yield leaves __call__ without closing the generator, and a       *)
(* cancel scope that cancels the read also cancels the close: the handle   *)
(* stays open until it is finalized, so the statement is violated.         *)
(***************************************************************************)
C14_HandleReleasedOnExit ==
   /\ pc \in {"done", "raised"} => handle # "open"
   /\ handle = "open" => pc \in {"read", "closing", "cancelling", "send", "iterate"}

(***************************************************************************)
(* C15.  The file-backed producer reads until the file is exhausted: a     *)
(* file of length L yields L div chunk_size full chunks and then one       *)
(* shorter, possibly empty, chunk.                                         *)
(* iterate_content reads once, so a file of chunk_size bytes or more       *)
(* yields one full chunk only and the statement is violated.               *)
(***************************************************************************)
C15_FileReadUntilExhausted ==
   (self.kind = "file" /\ ~HeadRequest /\ Completed) =>
      /\ Len(produced) = (Len(fs.data) \div self.chunk_size) + 1
      /\ \A i \in 1..(Len(produced) - 1) : Len(produced[i]) = self.chunk_size
      /\ Len(produced[Len(produced)]) < self.chunk_size
      /\ Concat(produced) = fs.data

(***************************************************************************)
(* C16.  The in-memory producer yields consecutive non-overlapping slices  *)
(* of the content, in order: every chunk is non-empty and at most          *)
(* chunk_size long, every chunk but the last is chunk_size long, and once  *)
(* the iteration has ended there are ceil(len / chunk_size) chunks whose   *)
(* concatenation is the content.                                           *)
(***************************************************************************)
C16_SlicerChunks ==
   (InMemory /\ ~HeadRequest) =>
      LET n == Len(self.content)
          cs == self.chunk_size
      IN  /\ \A i \in 1..Len(produced) :
                /\ Len(produced[i]) >= 1
                /\ Len(produced[i]) <= cs
                /\ i < Len(produced) => Len(produced[i]) = cs
                /\ \A j \in 1..Len(produced[i]) :
                      produced[i][j] = self.content[(i - 1) * cs + j]
          /\ pc \in {"post", "background", "in_background", "done"} =>
                /\ Len(produced) = (n + cs - 1) \div cs
                /\ Concat(produced) = self.content

C16_Witness ==
   /\ Completed
   /\ self.kind = "bytes"
   /\ ~HeadRequest
   /\ self.chunk_size = 2
   /\ Len(self.content) = 3
   /\ Len(produced) = 2
   /\ Len(produced[2]) = 1

(***************************************************************************)
(* C17.  On a non-HEAD request every body frame that is followed by        *)
(* another body frame has more_body = TRUE: no body frame comes after a    *)
(* frame with more_body = FALSE.                                           *)
(***************************************************************************)
C17_MoreBodyUntilLast ==
   ~HeadRequest =>
      \A i \in BodyIndexes : \A j \in BodyIndexes : i < j => frames[i].more_body = TRUE

C17_Witness ==
   /\ Completed
   /\ ~HeadRequest
   /\ Cardinality(BodyIndexes) = 2
   /\ frames[2].more_body = TRUE
   /\ frames[3].more_body = FALSE

(***************************************************************************)
(* C18.  A failure of pre_call, of the content iterator or of send ends    *)
(* the call where it occurs: the error is raised to the caller, post_call  *)
(* and the cleanup task have not run, a failure of pre_call leaves no      *)
(* frame sent, a failure after the start frame leaves the frames sent so   *)
(* far with no terminating body frame.  After any error, a cancellation    *)
(* included, nothing more is sent, produced or retried.                    *)
(***************************************************************************)
C18_FailureAborts ==
   /\ [](error # None => pc = "raised")
   /\ [](Failed =>
            /\ Count("post_call") = 0
            /\ bg.runs = 0
            /\ Count("pre_call") = 0 => frames = <<>>
            /\ \A i \in BodyIndexes : frames[i].more_body = TRUE)
   /\ [][error # None =>
            /\ pc' = pc
            /\ error' = error
            /\ frames' = frames
            /\ produced' = produced
            /\ log' = log
            /\ bg' = bg]_vars

C18_Witness ==
   /\ error = Some(SendError)
   /\ pc = "raised"
   /\ self.background # None
   /\ StartIndexes = {1}
   /\ Cardinality(BodyIndexes) >= 1

(***************************************************************************)
(* C19.  When the caller supplies no size, no precomputed file status and  *)
(* no content-length header, the content-length of the start frame of a    *)
(* completed non-HEAD response is the number of body bytes sent.           *)
(* For a file longer than the threshold only the first chunk is sent (see  *)
(* C1) while content-length is the size of the file: the statement is      *)
(* violated.                                                               *)
(***************************************************************************)
C19_ContentLengthMatchesBody ==
   (/\ Completed
    /\ ~HeadRequest
    /\ given.args.size = None
    /\ given.args.stat_mode = None
    /\ ~CallerSupplied("content-length")) =>
      /\ HasHeader(frames[1].headers, "content-length")
      /\ GetHeader(frames[1].headers, "content-length") = Str(Len(Concat(Bodies)))

====
